---- MODULE Spec2Model ----
(***************************************************************************)
(* The BusTub buffer pool: the LRU-K replacer (lru_k_replacer.cpp), the    *)
(* buffer pool manager (buffer_pool_manager.cpp) and the page guards       *)
(* (page_guard.cpp), as a state machine with one action per public call.   *)
(*                                                                         *)
(* Every operation of the code is an operator from a state record to a     *)
(* state record.  A failed BUSTUB_ASSERT (an abort), an uncaught exception *)
(* and a use of an invalidated list iterator put a message in the record's *)
(* err field; the action that made the call then sets the variable fault   *)
(* and the run ends there: nothing after it is defined by the code.        *)
(* Operators pass intermediate states as arguments, one small step each.   *)
(***************************************************************************)
EXTENDS Integers, Sequences, FiniteSets, TLC

\* ---------------------------------------------------------------- bounds
MaxPoolSize == 2      \* pool_size ranges over 1..MaxPoolSize
MaxK == 2             \* replacer_k ranges over 1..MaxK
MaxPageId == 3        \* page ids are 0..MaxPageId-1
MaxClock == 3         \* RecordAccess calls in one run of the pool
NumGuards == 2        \* guard objects alive at one time
MaxAccess == 4        \* RecordAccess calls in one run of the replacer alone
NumThreads == 2       \* threads calling the pool at one time
MaxThreadClock == 2   \* RecordAccess calls in one run of the threads
MaxThreadPageId == 1  \* the threads use page ids 0..MaxThreadPageId-1

INVALID_PAGE_ID == -1
NoFrame == 0 - 1      \* frame_id_t frame_id = -1
NullPage == 0 - 1     \* a null Page pointer

Frames == 0 .. (MaxPoolSize - 1)     \* frame ids, and indexes into pages_
PageIds == 0 .. (MaxPageId - 1)
GuardIds == 1 .. NumGuards
Threads == 1 .. NumThreads
ThreadPageIds == 0 .. (MaxThreadPageId - 1)

\* ---------------------------------------------------------------- helpers
Last(s) == s[Len(s)]
Front(s) == SubSeq(s, 1, Len(s) - 1)

RECURSIVE RemoveFirst(_, _)
RemoveFirst(s, x) ==
  IF s = <<>> THEN <<>>
  ELSE IF Head(s) = x THEN Tail(s)
  ELSE <<Head(s)>> \o RemoveFirst(Tail(s), x)

\* std::list::sort(cmp) with cmp(l, r) == key[l] > key[r]: a stable sort into
\* descending key order (equal keys keep their order).
RECURSIVE InsertDesc(_, _, _)
InsertDesc(x, s, key) ==
  IF s = <<>> THEN <<x>>
  ELSE IF key[Head(s)] > key[x] THEN <<Head(s)>> \o InsertDesc(x, Tail(s), key)
  ELSE <<x>> \o s

RECURSIVE SortDesc(_, _)
SortDesc(s, key) ==
  IF s = <<>> THEN <<>> ELSE InsertDesc(Head(s), SortDesc(Tail(s), key), key)

\* ================================================================ replacer
\* LRUKNode: k_ accesses recorded, history_ newest first, is_evictable_.
\* present: the node is in node_store_.
NewNode == [present |-> FALSE, k |-> 0, history |-> <<>>, is_evictable |-> FALSE]

\* history_.front() and history_.back() of an empty history_ are undefined: the
\* read aborts the program, or it yields whatever the memory next to the deque
\* holds.  junk is the outcome for the call in progress: JunkAbort, or the
\* value read, one below or one above every timestamp.
JunkAbort == 0 - 1
JunkLow == 0
JunkHigh == MaxClock + MaxAccess + 1
Junk == {JunkAbort, JunkLow, JunkHigh}

\* dict_[f], an iterator into lru_list_ or k_list_, is
\*   "none"  : no entry,
\*   "valid" : the entry points at f's element of the list f is in,
\*   "stale" : the entry points at an element that was popped (dangling).
LRUKReplacer(num_frames, k) ==
  [ replacer_size |-> num_frames, k |-> k,
    node_store |-> [f \in Frames |-> NewNode],
    lru_list |-> <<>>, k_list |-> <<>>,
    dict |-> [f \in Frames |-> "none"],
    curr_size |-> 0, current_timestamp |-> 0,
    junk |-> JunkAbort,
    err |-> "none" ]

Fail(r, msg) == [r EXCEPT !.err = msg]

NotInDict == "assert: This frame does not exist in dict"
BadIterator == "undefined: use of an invalidated list iterator"

ValidFrame(r, frame_id) == frame_id >= 0 /\ frame_id < r.replacer_size

\* node_store_[frame_id] = LRUKNode(frame_id) when the frame has no node yet
Touch(r, frame_id) ==
  IF r.node_store[frame_id].present THEN r
  ELSE [r EXCEPT !.node_store[frame_id] = [NewNode EXCEPT !.present = TRUE]]

\* Evict that leaves the node's history_ and k_ as they were
EvictNode_KeepsHistory(r, t, fromLru) ==
  [ r |-> [r EXCEPT
             !.lru_list = IF fromLru THEN Front(@) ELSE @,
             !.k_list = IF fromLru THEN @ ELSE Front(@),
             !.dict[t] = IF @ = "valid" THEN "stale" ELSE @,
             !.curr_size = @ - 1,
             !.node_store[t] = [@ EXCEPT !.is_evictable = FALSE]],
    ok |-> TRUE, frame_id |-> t ]

\* Evict once the node t at the back of a list is chosen
EvictNode(r, t, fromLru) ==
  [ r |-> [r EXCEPT
             !.lru_list = IF fromLru THEN Front(@) ELSE @,
             !.k_list = IF fromLru THEN @ ELSE Front(@),
             \* dict_ is not touched: an entry for t now dangles
             !.dict[t] = IF @ = "valid" THEN "stale" ELSE @,
             !.curr_size = @ - 1,
             !.node_store[t] = [@ EXCEPT !.is_evictable = FALSE,
                                         !.history = <<>>, !.k = 0]],
    ok |-> TRUE, frame_id |-> t ]

\* Evict: [r, ok, frame_id]
Evict(r) ==
  IF r.err # "none" \/ r.curr_size = 0
    THEN [r |-> r, ok |-> FALSE, frame_id |-> NoFrame]
  ELSE IF r.lru_list # <<>> THEN EvictNode(r, Last(r.lru_list), TRUE)
  ELSE IF r.k_list # <<>> THEN EvictNode(r, Last(r.k_list), FALSE)
  ELSE [r |-> Fail(r, "undefined: k_list_.back() of an empty list"),
        ok |-> FALSE, frame_id |-> NoFrame]

\* current_timestamp_ = system_clock::now(): a strictly increasing counter
Stamp(r) == [r EXCEPT !.current_timestamp = @ + 1]

\* RecordAccess on a full node without history_.pop_back()
RecordAccessFull_KeepsOldest(r, frame_id) ==
  IF ~r.node_store[frame_id].is_evictable
    THEN [r EXCEPT !.node_store[frame_id].history = <<r.current_timestamp>> \o @]
  ELSE IF r.dict[frame_id] = "none" THEN Fail(r, NotInDict)
  ELSE IF r.dict[frame_id] = "stale" THEN Fail(r, BadIterator)
  ELSE [r EXCEPT !.node_store[frame_id].history = <<r.current_timestamp>> \o @,
                 !.k_list = <<frame_id>> \o RemoveFirst(@, frame_id)]

\* RecordAccess on a node that has k_ accesses already
RecordAccessFull(r, frame_id) ==
  IF ~r.node_store[frame_id].is_evictable
    THEN [r EXCEPT !.node_store[frame_id].history =
                     <<r.current_timestamp>> \o Front(@)]
  ELSE IF r.dict[frame_id] = "none" THEN Fail(r, NotInDict)
  ELSE IF r.dict[frame_id] = "stale" THEN Fail(r, BadIterator)
  ELSE [r EXCEPT !.node_store[frame_id].history =
                   <<r.current_timestamp>> \o Front(@),
                 !.k_list = <<frame_id>> \o RemoveFirst(@, frame_id)]

\* RecordAccess on a node that has fewer than k_ accesses
RecordAccessWarmup(r, frame_id) ==
  IF ~r.node_store[frame_id].is_evictable
    THEN [r EXCEPT !.node_store[frame_id].k = @ + 1,
                   !.node_store[frame_id].history = <<r.current_timestamp>> \o @]
  ELSE IF r.node_store[frame_id].k + 1 = r.k THEN
    IF r.dict[frame_id] = "none" THEN Fail(r, NotInDict)
    ELSE IF r.dict[frame_id] = "stale" THEN Fail(r, BadIterator)
    ELSE [r EXCEPT !.node_store[frame_id].k = @ + 1,
                   !.node_store[frame_id].history = <<r.current_timestamp>> \o @,
                   !.lru_list = RemoveFirst(@, frame_id),
                   !.k_list = <<frame_id>> \o @]
  ELSE IF r.dict[frame_id] = "none"
    THEN [r EXCEPT !.node_store[frame_id].k = @ + 1,
                   !.node_store[frame_id].history = <<r.current_timestamp>> \o @,
                   !.lru_list = <<frame_id>> \o @,
                   !.dict[frame_id] = "valid"]
  ELSE [r EXCEPT !.node_store[frame_id].k = @ + 1,
                 !.node_store[frame_id].history = <<r.current_timestamp>> \o @]

\* RecordAccess from its two assertions on the node
RecordAccessNode(r, frame_id) ==
  IF r.node_store[frame_id].k > r.k THEN Fail(r, "assert: node->k_ > this->k_")
  ELSE IF r.node_store[frame_id].k # Len(r.node_store[frame_id].history)
    THEN Fail(r, "assert: node.k_ != node.history_.size()")
  ELSE IF r.node_store[frame_id].k = r.k THEN RecordAccessFull(r, frame_id)
  ELSE RecordAccessWarmup(r, frame_id)

\* RecordAccess(frame_id, access_type): access_type is not read by the body
RecordAccess(r, frame_id) ==
  IF r.err # "none" THEN r
  ELSE IF ~ValidFrame(r, frame_id) THEN Fail(r, "assert: frame id is invalid")
  ELSE RecordAccessNode(Stamp(Touch(r, frame_id)), frame_id)

\* The sort keys of SetEvictable's two comparators.
FrontKey(r) ==
  [f \in Frames |-> IF r.node_store[f].history = <<>> THEN r.junk
                    ELSE Head(r.node_store[f].history)]
BackKey(r) ==
  [f \in Frames |-> IF r.node_store[f].history = <<>> THEN r.junk
                    ELSE Last(r.node_store[f].history)]

\* a comparator reads history_.front() or .back() of an empty history
ReadsEmptyHistory(r, list) ==
  Len(list) >= 2 /\ \E i \in 1 .. Len(list) : r.node_store[list[i]].history = <<>>

\* SetEvictable(frame_id, true) on a node that was not evictable
MakeEvictable(r, frame_id) ==
  IF r.node_store[frame_id].k = r.k THEN
    \* k_list_.push_front(node); k_list_.sort(cmp): dict_ gets no entry
    IF ReadsEmptyHistory(r, <<frame_id>> \o r.k_list) /\ r.junk = JunkAbort
      THEN Fail(r, "undefined: front() of an empty history")
    ELSE [r EXCEPT !.node_store[frame_id].is_evictable = TRUE,
                   !.curr_size = @ + 1,
                   !.k_list = SortDesc(<<frame_id>> \o @, FrontKey(r))]
  ELSE
    IF ReadsEmptyHistory(r, <<frame_id>> \o r.lru_list) /\ r.junk = JunkAbort
      THEN Fail(r, "undefined: back() of an empty history")
    ELSE [r EXCEPT !.node_store[frame_id].is_evictable = TRUE,
                   !.curr_size = @ + 1,
                   !.lru_list = SortDesc(<<frame_id>> \o @, BackKey(r)),
                   !.dict[frame_id] = "valid"]

\* SetEvictable(frame_id, false) on a node that was evictable
MakeNonEvictable(r, frame_id) ==
  IF r.dict[frame_id] = "none" THEN Fail(r, NotInDict)
  ELSE IF r.dict[frame_id] = "stale" THEN Fail(r, BadIterator)
  ELSE [r EXCEPT !.node_store[frame_id].is_evictable = FALSE,
                 !.k_list = IF r.node_store[frame_id].k = r.k
                              THEN RemoveFirst(@, frame_id) ELSE @,
                 !.lru_list = IF r.node_store[frame_id].k = r.k
                                THEN @ ELSE RemoveFirst(@, frame_id),
                 !.dict[frame_id] = "none",
                 !.curr_size = @ - 1]

\* SetEvictable once the node exists
SetEvictableNode(r, frame_id, set_evictable) ==
  IF set_evictable = r.node_store[frame_id].is_evictable THEN r
  ELSE IF set_evictable THEN MakeEvictable(r, frame_id)
  ELSE MakeNonEvictable(r, frame_id)

SetEvictable(r, frame_id, set_evictable) ==
  IF r.err # "none" THEN r
  ELSE IF ~ValidFrame(r, frame_id) THEN Fail(r, "assert: frame id is invalid")
  ELSE SetEvictableNode(Touch(r, frame_id), frame_id, set_evictable)

\* Remove of an evictable node without --curr_size_
RemoveEvictable_KeepsSize(r, frame_id) ==
  IF r.dict[frame_id] = "none" THEN Fail(r, NotInDict)
  ELSE IF r.dict[frame_id] = "stale" THEN Fail(r, BadIterator)
  ELSE [r EXCEPT !.k_list = IF r.node_store[frame_id].k = r.k
                              THEN RemoveFirst(@, frame_id) ELSE @,
                 !.lru_list = IF r.node_store[frame_id].k = r.k
                                THEN @ ELSE RemoveFirst(@, frame_id),
                 !.dict[frame_id] = "none",
                 !.node_store[frame_id] = [@ EXCEPT !.history = <<>>, !.k = 0,
                                                    !.is_evictable = FALSE]]

\* Remove of a node that is evictable
RemoveEvictable(r, frame_id) ==
  IF r.dict[frame_id] = "none" THEN Fail(r, NotInDict)
  ELSE IF r.dict[frame_id] = "stale" THEN Fail(r, BadIterator)
  ELSE [r EXCEPT !.k_list = IF r.node_store[frame_id].k = r.k
                              THEN RemoveFirst(@, frame_id) ELSE @,
                 !.lru_list = IF r.node_store[frame_id].k = r.k
                                THEN @ ELSE RemoveFirst(@, frame_id),
                 !.dict[frame_id] = "none",
                 !.curr_size = @ - 1,
                 !.node_store[frame_id] = [@ EXCEPT !.history = <<>>, !.k = 0,
                                                    !.is_evictable = FALSE]]

\* Remove: [r, thrown]; thrown: ExecutionException("remove a non-evictable
\* frame") left the call, with the replacer as it was
Remove(r, frame_id) ==
  IF r.err # "none" THEN [r |-> r, thrown |-> FALSE]
  ELSE IF ~ValidFrame(r, frame_id)
    THEN [r |-> Fail(r, "assert: frame id is invalid"), thrown |-> FALSE]
  ELSE IF ~r.node_store[frame_id].present THEN [r |-> r, thrown |-> FALSE]
  ELSE IF r.node_store[frame_id].is_evictable
    THEN [r |-> RemoveEvictable(r, frame_id), thrown |-> FALSE]
  ELSE [r |-> r, thrown |-> TRUE]

Size(r) == r.curr_size


\* ================================================================ buffer pool
\* The record b is a BufferPoolManager:
\*   pages[i]    : pages_[i], with its page_id_, pin_count_, is_dirty_
\*   rwlatch[i]  : pages_[i].rwlatch_, readers holding it and whether a writer does
\*   page_table  : page_table_ (NoFrame: no entry)
\*   free_list, next_page_id, replacer
\*   calls       : what the running call has done so far, in order
\*   err         : "none", or the assertion, exception or undefined step that ended it
NewPageObj == [page_id |-> INVALID_PAGE_ID, pin_count |-> 0, is_dirty |-> FALSE]

\* an entry of calls: c is the call, and the page id, the index into pages_, the
\* frame id, and the dirty flag and pin count it was made with or found
Ev(c, page, slot, frame, dirty, pin) ==
  [c |-> c, page |-> page, slot |-> slot, frame |-> frame, dirty |-> dirty, pin |-> pin]

Log(b, e) == [b EXCEPT !.calls = Append(@, e)]

FailB(b, msg) == [b EXCEPT !.err = msg]

\* a replacer call made by the pool: the replacer's failure is the pool's
WithReplacer(b, r) == [b EXCEPT !.replacer = r, !.err = r.err]

Slots(b) == 0 .. (b.pool_size - 1)

MinOf(S) == CHOOSE x \in S : \A y \in S : x <= y

RECURSIVE SeqUpTo(_)
SeqUpTo(n) == IF n = 0 THEN <<>> ELSE Append(SeqUpTo(n - 1), n - 1)

BufferPoolManager(pool_size, replacer_k) ==
  [ pool_size |-> pool_size,
    pages |-> [i \in Frames |-> NewPageObj],
    rwlatch |-> [i \in Frames |-> [readers |-> 0, writer |-> FALSE]],
    page_table |-> [p \in PageIds |-> NoFrame],
    free_list |-> SeqUpTo(pool_size),
    next_page_id |-> 0,
    replacer |-> LRUKReplacer(pool_size, replacer_k),
    calls |-> <<>>,
    err |-> "none" ]

\* the first pages_[i] whose page id is page_id, or null
GetPage(b, page_id) ==
  IF \E i \in Slots(b) : b.pages[i].page_id = page_id
    THEN MinOf({i \in Slots(b) : b.pages[i].page_id = page_id})
  ELSE NullPage

\* the key of page_table_ whose value is fid, or INVALID_PAGE_ID
GetPageId(b, fid) ==
  IF \E p \in PageIds : b.page_table[p] = fid
    THEN MinOf({p \in PageIds : b.page_table[p] = fid})
  ELSE INVALID_PAGE_ID

GetFreePage(b) == GetPage(b, INVALID_PAGE_ID)

\* WriteBackPage writing the page whether or not it is dirty
WriteBackFound_Always(b, page_id, i) ==
  IF i = NullPage THEN [b |-> b, ret |-> NullPage]
  ELSE [b |-> Log(b, Ev("WritePage", page_id, i, NoFrame, TRUE, b.pages[i].pin_count)),
        ret |-> i]

\* WriteBackPage once pages_[i] is found
WriteBackFound(b, page_id, i) ==
  IF i = NullPage THEN [b |-> b, ret |-> NullPage]
  ELSE IF b.pages[i].is_dirty
    THEN [b |-> Log(b, Ev("WritePage", page_id, i, NoFrame, TRUE, b.pages[i].pin_count)),
          ret |-> i]
  ELSE [b |-> b, ret |-> i]

\* WriteBackPage: [b, ret]; the write runs in a thread that is joined at once
WriteBackPage(b, page_id) == WriteBackFound(b, page_id, GetPage(b, page_id))

\* page_table_.emplace(page_id, frame_id) inserts only when the key is absent
Emplace(b, page_id, frame_id) ==
  [b EXCEPT !.page_table[page_id] = IF @ = NoFrame THEN frame_id ELSE @]

\* the tail of AllocFrame, from BUSTUB_ASSERT(ret != nullptr, ...) on
BindFrame(b, page_id, frame_id, ret) ==
  IF b.err # "none" THEN b
  ELSE IF ret = NullPage THEN FailB(b, "assert: don't find page")
  ELSE Log(Emplace(WithReplacer(
                     [b EXCEPT !.pages[ret] = [page_id |-> page_id, pin_count |-> 1,
                                               is_dirty |-> FALSE]],
                     SetEvictable(b.replacer, frame_id, FALSE)),
                   page_id, frame_id),
           Ev("Bind", page_id, ret, frame_id, FALSE, 1))

\* what AllocFrame returns: the bound Page, unless the call did not get there
Bound(b, ret) == [b |-> b, ret |-> IF b.err = "none" THEN ret ELSE NullPage]

\* AllocFrame when the free list is not empty
AllocFree(b, page_id) ==
  Bound(BindFrame([b EXCEPT !.free_list = Tail(@)], page_id, Head(b.free_list),
                  GetFreePage(b)),
        GetFreePage(b))

\* the "Evict" entry made for the victim pages_[victim]
LogEvict(b, old_page_id, frame_id, victim) ==
  Log(b, Ev("Evict", old_page_id, victim, frame_id,
            victim # NullPage /\ b.pages[victim].is_dirty,
            IF victim = NullPage THEN 0 ELSE b.pages[victim].pin_count))

\* AllocFrame after WriteBackPage(old_page_id) returned wb
Rebind(wb, page_id, frame_id, old_page_id) ==
  Bound(BindFrame([wb.b EXCEPT !.page_table[old_page_id] = NoFrame],
                  page_id, frame_id, wb.ret),
        wb.ret)

\* AllocFrame after GetPageId(frame_id) returned old_page_id
EvictOld(b, page_id, frame_id, old_page_id) ==
  IF old_page_id = INVALID_PAGE_ID
    THEN [b |-> FailB(b, "assert: don't find old page"), ret |-> NullPage]
  ELSE Rebind(WriteBackPage(LogEvict(b, old_page_id, frame_id, GetPage(b, old_page_id)),
                            old_page_id),
              page_id, frame_id, old_page_id)

\* AllocFrame after replacer_->Evict(&frame_id) returned ev
AllocEvicted(b, page_id, ev) ==
  IF ev.r.err # "none" THEN [b |-> WithReplacer(b, ev.r), ret |-> NullPage]
  ELSE IF ~ev.ok THEN [b |-> b, ret |-> NullPage]
  ELSE EvictOld(WithReplacer(b, ev.r), page_id, ev.frame_id,
                GetPageId(b, ev.frame_id))

\* AllocFrame: [b, ret]
AllocFrame(b, page_id) ==
  IF b.err # "none" THEN [b |-> b, ret |-> NullPage]
  ELSE IF b.free_list # <<>> THEN AllocFree(b, page_id)
  ELSE AllocEvicted(b, page_id, Evict(b.replacer))

AllocatePage(b) == [b EXCEPT !.next_page_id = @ + 1]

\* page_table_.at(page_id) throws std::out_of_range when there is no entry
NoEntry == "exception: page_table_.at: no such key"

\* replacer_->RecordAccess(page_table_.at(page_id))
RecordAccessOf(b, page_id) ==
  IF b.err # "none" THEN b
  ELSE IF b.page_table[page_id] = NoFrame THEN FailB(b, NoEntry)
  ELSE WithReplacer(b, RecordAccess(b.replacer, b.page_table[page_id]))

\* NewPage after AllocFrame returned a
NewPageBound(a, page_id) ==
  IF a.b.err # "none" \/ a.ret = NullPage
    THEN [b |-> a.b, ret |-> NullPage, page_id |-> page_id]
  ELSE [b |-> RecordAccessOf(a.b, page_id), ret |-> a.ret, page_id |-> page_id]

\* NewPage: [b, ret, page_id]
NewPage(b) == NewPageBound(AllocFrame(AllocatePage(b), b.next_page_id), b.next_page_id)

\* the hit branch of FetchPage: ++(page->pin_count_); SetEvictable(frame_id, false)
PinResident(b, page, frame_id) ==
  WithReplacer([b EXCEPT !.pages[page].pin_count = @ + 1],
               SetEvictable(b.replacer, frame_id, FALSE))

\* FetchPage of a page that is in page_table_
FetchHit(b, page_id, page) ==
  IF page = NullPage
    THEN [b |-> FailB(b, "undefined: null Page dereferenced"), ret |-> NullPage]
  ELSE [b |-> RecordAccessOf(PinResident(b, page, b.page_table[page_id]), page_id),
        ret |-> page]

\* FetchPage of a page that is not, after AllocFrame returned a
FetchMiss(a, page_id) ==
  IF a.b.err # "none" \/ a.ret = NullPage THEN [b |-> a.b, ret |-> NullPage]
  ELSE [b |-> RecordAccessOf(
                Log(a.b, Ev("ReadPage", page_id, a.ret, a.b.page_table[page_id], FALSE, 1)),
                page_id),
        ret |-> a.ret]

\* FetchPage: [b, ret]
FetchPage(b, page_id) ==
  IF b.err # "none" THEN [b |-> b, ret |-> NullPage]
  ELSE IF b.page_table[page_id] # NoFrame THEN FetchHit(b, page_id, GetPage(b, page_id))
  ELSE FetchMiss(AllocFrame(b, page_id), page_id)

\* UnpinPage after --(page->pin_count_); page->is_dirty_ = is_dirty
Unpinned(b, page, frame_id) ==
  IF b.pages[page].pin_count = 0
    THEN WithReplacer(b, SetEvictable(b.replacer, frame_id, TRUE))
  ELSE b

\* UnpinPage without the test for pin_count = 0
UnpinResident_NoZeroCheck(b, page_id, is_dirty, page) ==
  IF page = NullPage THEN [b |-> FailB(b, "assert: page != nullptr"), ret |-> FALSE]
  ELSE [b |-> Unpinned([b EXCEPT !.pages[page].pin_count = @ - 1,
                                 !.pages[page].is_dirty = is_dirty],
                       page, b.page_table[page_id]),
        ret |-> TRUE]

\* UnpinPage of a page that is in page_table_
UnpinResident(b, page_id, is_dirty, page) ==
  IF page = NullPage THEN [b |-> FailB(b, "assert: page != nullptr"), ret |-> FALSE]
  ELSE IF b.pages[page].pin_count = 0 THEN [b |-> b, ret |-> FALSE]
  ELSE [b |-> Unpinned([b EXCEPT !.pages[page].pin_count = @ - 1,
                                 !.pages[page].is_dirty = is_dirty],
                       page, b.page_table[page_id]),
        ret |-> TRUE]

\* UnpinPage: [b, ret]
UnpinPage(b, page_id, is_dirty) ==
  IF b.err # "none" \/ b.page_table[page_id] = NoFrame THEN [b |-> b, ret |-> FALSE]
  ELSE UnpinResident(b, page_id, is_dirty, GetPage(b, page_id))

\* RLatch; disk_manager_->WritePage(page_id, data); RUnlatch; RecordAccess
FlushFound(b, page_id, page) ==
  RecordAccessOf(Log(b, Ev("WritePage", page_id, page, NoFrame, b.pages[page].is_dirty,
                           b.pages[page].pin_count)),
                 page_id)

\* FlushPage after GetPage(page_id) returned page
FlushResident(b, page_id, page) ==
  IF page = NullPage THEN [b |-> b, ret |-> FALSE]
  ELSE [b |-> FlushFound(b, page_id, page), ret |-> TRUE]

\* FlushPage: [b, ret]
FlushPage(b, page_id) ==
  IF b.err # "none" THEN [b |-> b, ret |-> FALSE]
  ELSE FlushResident(b, page_id, GetPage(b, page_id))

\* the loop of FlushAllPages from pages_[i] on
RECURSIVE FlushFrom(_, _)
FlushFrom(b, i) ==
  IF b.err # "none" \/ i >= b.pool_size THEN b
  ELSE IF b.pages[i].page_id = INVALID_PAGE_ID THEN FlushFrom(b, i + 1)
  ELSE FlushFrom(FlushFound(b, b.pages[i].page_id, i), i + 1)

FlushAllPages(b) == FlushFrom(b, 0)

\* DeletePage writing pages_[page] back when it is dirty
DeleteWriteBack(b, page_id, page) ==
  IF b.pages[page].is_dirty
    THEN Log([b EXCEPT !.pages[page].is_dirty = FALSE],
             Ev("WritePage", page_id, page, NoFrame, TRUE, 0))
  ELSE b

\* DeletePage from page->WLatch() on
FreeFrame(b, page_id, page, was_dirty) ==
  Log([b EXCEPT !.pages[page].page_id = INVALID_PAGE_ID,
                !.free_list = Append(@, b.page_table[page_id]),
                !.page_table[page_id] = NoFrame],
      Ev("Free", page_id, page, b.page_table[page_id], was_dirty, 0))

\* DeletePage without the test of the pin count
DeleteResident_IgnorePin(b, page_id, page) ==
  IF page = NullPage
    THEN [b |-> FailB(b, "undefined: null Page dereferenced"), ret |-> FALSE]
  ELSE [b |-> FreeFrame(DeleteWriteBack(b, page_id, page), page_id, page,
                        b.pages[page].is_dirty),
        ret |-> TRUE]

\* DeletePage of a page that is in page_table_
DeleteResident(b, page_id, page) ==
  IF page = NullPage
    THEN [b |-> FailB(b, "undefined: null Page dereferenced"), ret |-> FALSE]
  ELSE IF b.pages[page].pin_count # 0 THEN [b |-> b, ret |-> FALSE]
  ELSE [b |-> FreeFrame(DeleteWriteBack(b, page_id, page), page_id, page,
                        b.pages[page].is_dirty),
        ret |-> TRUE]

\* DeletePage: [b, ret]; DeallocatePage does nothing
DeletePage(b, page_id) ==
  IF b.err # "none" THEN [b |-> b, ret |-> FALSE]
  ELSE IF b.page_table[page_id] = NoFrame THEN [b |-> b, ret |-> TRUE]
  ELSE DeleteResident(b, page_id, GetPage(b, page_id))


\* ================================================================ page guards
\* A guard object: bpm (bpm_ is set), page (page_, an index into pages_, or
\* NullPage), is_dirty_.  live: the object has been constructed and not destroyed.
NoGuard ==
  [live |-> FALSE, kind |-> "basic", bpm |-> FALSE, page |-> NullPage, is_dirty |-> FALSE]

\* BasicPageGuard(bpm, page), and the Read/Write guards built around it
MakeGuard(kind, page) ==
  [live |-> TRUE, kind |-> kind, bpm |-> TRUE, page |-> page, is_dirty |-> FALSE]

\* the members a default-constructed or moved-from guard has
Inert(g) == [g EXCEPT !.bpm = FALSE, !.page = NullPage, !.is_dirty = FALSE]

\* Page::RUnlatch / WUnlatch.  Unlocking a latch that is not held is undefined:
\* ub chooses between the run ending there and the latch being left as it was.
RUnlatch(b, i, ub) ==
  IF b.err # "none" THEN b
  ELSE IF b.rwlatch[i].readers > 0
    THEN Log([b EXCEPT !.rwlatch[i].readers = @ - 1],
             Ev("RUnlatch", b.pages[i].page_id, i, NoFrame, FALSE, b.pages[i].pin_count))
  ELSE IF ub THEN FailB(b, "undefined: RUnlatch of a latch that is not held")
  ELSE Log(b, Ev("RUnlatch", b.pages[i].page_id, i, NoFrame, FALSE, b.pages[i].pin_count))

WUnlatch(b, i, ub) ==
  IF b.err # "none" THEN b
  ELSE IF b.rwlatch[i].writer
    THEN Log([b EXCEPT !.rwlatch[i].writer = FALSE],
             Ev("WUnlatch", b.pages[i].page_id, i, NoFrame, FALSE, b.pages[i].pin_count))
  ELSE IF ub THEN FailB(b, "undefined: WUnlatch of a latch that is not held")
  ELSE Log(b, Ev("WUnlatch", b.pages[i].page_id, i, NoFrame, FALSE, b.pages[i].pin_count))

\* bpm_->UnpinPage(page_->GetPageId(), is_dirty_) as a guard calls it
GuardUnpin(b, page, is_dirty) ==
  UnpinPage(Log(b, Ev("UnpinPage", b.pages[page].page_id, page, NoFrame, is_dirty,
                      b.pages[page].pin_count)),
            b.pages[page].page_id, is_dirty).b

\* Drop leaving bpm_ and page_ set after the UnpinPage
DropCleared_KeepsPage(b, g) ==
  IF g.page = NullPage /\ ~g.bpm THEN [b |-> b, g |-> g]
  ELSE IF ~(g.page # NullPage /\ g.bpm)
    THEN [b |-> FailB(b, "assert: only one of page and bpm is null"), g |-> g]
  ELSE [b |-> GuardUnpin(b, g.page, g.is_dirty), g |-> g]

\* BasicPageGuard::Drop after is_dirty_ = false: [b, g]
DropCleared(b, g) ==
  IF g.page = NullPage /\ ~g.bpm THEN [b |-> b, g |-> g]
  ELSE IF ~(g.page # NullPage /\ g.bpm)
    THEN [b |-> FailB(b, "assert: only one of page and bpm is null"), g |-> g]
  ELSE [b |-> GuardUnpin(b, g.page, g.is_dirty),
        g |-> [g EXCEPT !.bpm = FALSE, !.page = NullPage]]

\* BasicPageGuard::Drop: [b, g]
BasicPageGuardDrop(b, g) ==
  IF b.err # "none" THEN [b |-> b, g |-> g]
  ELSE DropCleared(b, [g EXCEPT !.is_dirty = FALSE])

\* operator= after this->Drop() returned d: the three swaps with that
SwapWith(d, h) ==
  [ b |-> d.b,
    g |-> [d.g EXCEPT !.bpm = h.bpm, !.page = h.page, !.is_dirty = h.is_dirty],
    h |-> [h EXCEPT !.bpm = d.g.bpm, !.page = d.g.page, !.is_dirty = d.g.is_dirty] ]

\* BasicPageGuard::operator=(BasicPageGuard &&that), this != &that: [b, g, h]
BasicPageGuardAssign(b, g, h) == SwapWith(BasicPageGuardDrop(b, g), h)

\* ReadPageGuard::Drop unpinning first and releasing the latch after
ReadPageGuardDrop_UnpinFirst(b, g, ub) ==
  [ b |-> IF g.page # NullPage THEN RUnlatch(BasicPageGuardDrop(b, g).b, g.page, ub)
          ELSE BasicPageGuardDrop(b, g).b,
    g |-> BasicPageGuardDrop(b, g).g ]

\* ReadPageGuard::Drop
ReadPageGuardDrop(b, g, ub) ==
  BasicPageGuardDrop(IF g.page # NullPage THEN RUnlatch(b, g.page, ub) ELSE b, g)

\* WritePageGuard::Drop
WritePageGuardDrop(b, g, ub) ==
  BasicPageGuardDrop(IF g.page # NullPage THEN WUnlatch(b, g.page, ub) ELSE b, g)

\* ReadPageGuard::operator=
ReadPageGuardAssign(b, g, h, ub) ==
  BasicPageGuardAssign(IF g.page # NullPage THEN RUnlatch(b, g.page, ub) ELSE b, g, h)

\* WritePageGuard::operator=
WritePageGuardAssign(b, g, h, ub) ==
  BasicPageGuardAssign(IF g.page # NullPage THEN WUnlatch(b, g.page, ub) ELSE b, g, h)

\* Drop of a guard of any kind
Drop(b, g, ub) ==
  IF g.kind = "read" THEN ReadPageGuardDrop(b, g, ub)
  ELSE IF g.kind = "write" THEN WritePageGuardDrop(b, g, ub)
  ELSE BasicPageGuardDrop(b, g)

\* the member guard_ of a read or write guard is destroyed after the guard's
\* own destructor has run Drop
DestroyMember(d) == BasicPageGuardDrop(d.b, d.g)

\* the destructors
Destroy(b, g, ub) ==
  IF g.kind = "basic" THEN BasicPageGuardDrop(b, g)
  ELSE DestroyMember(Drop(b, g, ub))

\* operator= of a guard of any kind
Assign(b, g, h, ub) ==
  IF g.kind = "read" THEN ReadPageGuardAssign(b, g, h, ub)
  ELSE IF g.kind = "write" THEN WritePageGuardAssign(b, g, h, ub)
  ELSE BasicPageGuardAssign(b, g, h)

\* ================================================================ the state machine
VARIABLES
  bpm,      \* the BufferPoolManager; bpm.calls is what the last call did
  guards,   \* the guard objects of the callers
  lastOp,   \* the last call that returned, its arguments and its result
  fault,    \* the call that did not return, and why
  sync      \* the threads: who holds latch_, who holds which rwlatch_, who is where

vars == <<bpm, guards, lastOp, fault, sync>>

\* pre: for a call on guard g, the guard as it was when the call was made
Op(op, page, dirty, g, h, ret, pre) ==
  [op |-> op, page |-> page, dirty |-> dirty, g |-> g, h |-> h, ret |-> ret, pre |-> pre]

NoFault == [msg |-> "none", op |-> "none", page |-> INVALID_PAGE_ID, g |-> 0]

B2I(x) == IF x THEN 1 ELSE 0

\* A thread is "idle" (outside the pool), "calling" (at the lock_guard of a pool
\* call, before it has latch_) or "inside" (it holds latch_ and runs call).
Outside == [at |-> "idle", call |-> "none", page |-> INVALID_PAGE_ID, dirty |-> FALSE]

\* mutex: the thread that holds latch_, 0 for none; owner[i]: the thread that
\* holds pages_[i].rwlatch_ for writing, 0 for none
NoThreads ==
  [mutex |-> 0, owner |-> [i \in Frames |-> 0], pc |-> [t \in Threads |-> Outside]]

Init ==
  /\ \E pool_size \in 1 .. MaxPoolSize, replacer_k \in 1 .. MaxK :
       bpm = BufferPoolManager(pool_size, replacer_k)
  /\ guards = [g \in GuardIds |-> NoGuard]
  /\ lastOp = Op("Init", INVALID_PAGE_ID, FALSE, 0, 0, 0, NoGuard)
  /\ fault = NoFault
  /\ sync = NoThreads

\* the call starts with an empty log
Enter == [bpm EXCEPT !.calls = <<>>]

\* a call in which reading an empty history_ has the outcome junk
EnterUB(junk) == [bpm EXCEPT !.calls = <<>>, !.replacer.junk = junk]

\* The call either returns, and its effects are the new state, or it ends the
\* run: the state is left as it was before the call and fault names the call.
Commit(b, gs, op) ==
  IF b.err # "none"
    THEN /\ fault' = [msg |-> b.err, op |-> op.op, page |-> op.page, g |-> op.g]
         /\ UNCHANGED <<bpm, guards, lastOp>>
  ELSE /\ b.replacer.current_timestamp <= MaxClock
       /\ bpm' = [b EXCEPT !.replacer.junk = JunkAbort]
       /\ guards' = gs
       /\ lastOp' = op
       /\ UNCHANGED fault

\* a call made with no other thread about
Return(b, gs, op) == Commit(b, gs, op) /\ UNCHANGED sync

Running == fault = NoFault

\* ---------------------------------------------------------------- pool calls
ReturnNewPage(res) ==
  Return(res.b, guards, Op("NewPage", res.page_id, FALSE, 0, 0, res.ret, NoGuard))

CallNewPage ==
  /\ Running
  /\ bpm.next_page_id < MaxPageId
  /\ ReturnNewPage(NewPage(Enter))

ReturnFetchPage(res, p) ==
  Return(res.b, guards, Op("FetchPage", p, FALSE, 0, 0, res.ret, NoGuard))

CallFetchPage(p) ==
  /\ Running
  /\ ReturnFetchPage(FetchPage(Enter, p), p)

ReturnBool(res, op, p, is_dirty) ==
  Return(res.b, guards, Op(op, p, is_dirty, 0, 0, B2I(res.ret), NoGuard))

CallUnpinPage(p, is_dirty, junk) ==
  /\ Running
  /\ ReturnBool(UnpinPage(EnterUB(junk), p, is_dirty), "UnpinPage", p, is_dirty)

CallFlushPage(p) ==
  /\ Running
  /\ ReturnBool(FlushPage(Enter, p), "FlushPage", p, FALSE)

CallFlushAllPages ==
  /\ Running
  /\ Return(FlushAllPages(Enter), guards,
            Op("FlushAllPages", INVALID_PAGE_ID, FALSE, 0, 0, 0, NoGuard))

CallDeletePage(p) ==
  /\ Running
  /\ ReturnBool(DeletePage(Enter, p), "DeletePage", p, FALSE)

Next ==
  \/ CallNewPage
  \/ \E p \in PageIds : CallFetchPage(p)
  \/ \E p \in PageIds, is_dirty \in BOOLEAN, junk \in Junk :
       CallUnpinPage(p, is_dirty, junk)
  \/ \E p \in PageIds : CallFlushPage(p)
  \/ CallFlushAllPages
  \/ \E p \in PageIds : CallDeletePage(p)

Spec == Init /\ [][Next]_vars

\* ---------------------------------------------------------------- guard calls
ReturnGuard(res, op, p, g, guard) ==
  Return(res.b, [guards EXCEPT ![g] = guard], Op(op, p, FALSE, g, 0, res.ret, guard))

\* FetchPageBasic: return {this, FetchPage(page_id)}
FetchedGuard(res, kind, p, g) ==
  ReturnGuard(res, "FetchPageGuarded", p, g, MakeGuard(kind, res.ret))

CallFetchPageBasic(g, p) ==
  /\ Running
  /\ ~guards[g].live
  /\ FetchedGuard(FetchPage(Enter, p), "basic", p, g)

\* FetchPageRead: return {this, FetchPage(page_id, AccessType::Scan)}
CallFetchPageRead(g, p) ==
  /\ Running
  /\ ~guards[g].live
  /\ FetchedGuard(FetchPage(Enter, p), "read", p, g)

\* FetchPageWrite: return {this, FetchPage(page_id, AccessType::Get)}
CallFetchPageWrite(g, p) ==
  /\ Running
  /\ ~guards[g].live
  /\ FetchedGuard(FetchPage(Enter, p), "write", p, g)

NewGuard(res, g) ==
  ReturnGuard(res, "NewPageGuarded", res.page_id, g, MakeGuard("basic", res.ret))

\* NewPageGuarded: return {this, NewPage(page_id)}
CallNewPageGuarded(g) ==
  /\ Running
  /\ ~guards[g].live
  /\ bpm.next_page_id < MaxPageId
  /\ NewGuard(NewPage(Enter), g)

\* GetDataMut / AsMut of a basic or write guard: is_dirty_ = true
GuardMarkDirty(g) ==
  /\ Running
  /\ guards[g].live /\ guards[g].kind # "read"
  /\ guards[g].page # NullPage /\ ~guards[g].is_dirty
  /\ Return(Enter, [guards EXCEPT ![g].is_dirty = TRUE],
            Op("MarkDirty", INVALID_PAGE_ID, TRUE, g, 0, 0, guards[g]))

\* Guard g(std::move(h)): the move constructors swap h's members with those of
\* the new, default-initialised g
GuardMoveConstruct(g, h) ==
  /\ Running
  /\ ~guards[g].live /\ guards[h].live
  /\ Return(Enter,
            [guards EXCEPT ![g] = guards[h], ![h] = Inert(guards[h])],
            Op("MoveConstruct", INVALID_PAGE_ID, FALSE, g, h, 0, guards[h]))

Assigned(res, g, h) ==
  Return(res.b, [guards EXCEPT ![g] = res.g, ![h] = res.h],
         Op("MoveAssign", INVALID_PAGE_ID, FALSE, g, h, 0, guards[g]))

\* g = std::move(h)
GuardMoveAssign(g, h, ub, junk) ==
  /\ Running
  /\ g # h
  /\ guards[g].live /\ guards[h].live /\ guards[g].kind = guards[h].kind
  /\ Assigned(Assign(EnterUB(junk), guards[g], guards[h], ub), g, h)

Dropped(res, g) ==
  Return(res.b, [guards EXCEPT ![g] = res.g],
         Op("Drop", INVALID_PAGE_ID, FALSE, g, 0, 0, guards[g]))

\* g.Drop()
GuardDrop(g, ub, junk) ==
  /\ Running
  /\ guards[g].live
  /\ Dropped(Drop(EnterUB(junk), guards[g], ub), g)

Destroyed(res, g) ==
  Return(res.b, [guards EXCEPT ![g] = NoGuard],
         Op("Destroy", INVALID_PAGE_ID, FALSE, g, 0, 0, guards[g]))

\* g goes out of scope
GuardDestroy(g, ub, junk) ==
  /\ Running
  /\ guards[g].live
  /\ Destroyed(Destroy(EnterUB(junk), guards[g], ub), g)

NextGuard ==
  \/ \E g \in GuardIds, p \in PageIds : CallFetchPageBasic(g, p)
  \/ \E g \in GuardIds, p \in PageIds : CallFetchPageRead(g, p)
  \/ \E g \in GuardIds, p \in PageIds : CallFetchPageWrite(g, p)
  \/ \E g \in GuardIds : CallNewPageGuarded(g)
  \/ \E g \in GuardIds : GuardMarkDirty(g)
  \/ \E g, h \in GuardIds : GuardMoveConstruct(g, h)
  \/ \E g, h \in GuardIds, ub \in BOOLEAN, junk \in Junk :
       GuardMoveAssign(g, h, ub, junk)
  \/ \E g \in GuardIds, ub \in BOOLEAN, junk \in Junk : GuardDrop(g, ub, junk)
  \/ \E g \in GuardIds, ub \in BOOLEAN, junk \in Junk : GuardDestroy(g, ub, junk)

SpecGuard == Init /\ [][NextGuard]_vars

\* ---------------------------------------------------------------- replacer calls
\* The replacer of the pool, called directly on valid frame ids.  lastOp.page
\* is the frame id of the call (for Evict, the frame id written to *frame_id).
ReturnReplacer(r, op) ==
  IF r.err # "none"
    THEN /\ fault' = [msg |-> r.err, op |-> op.op, page |-> op.page, g |-> 0]
         /\ UNCHANGED <<bpm, guards, lastOp, sync>>
  ELSE /\ r.current_timestamp <= MaxAccess
       /\ bpm' = [bpm EXCEPT !.replacer = [r EXCEPT !.junk = JunkAbort],
                              !.calls = <<>>]
       /\ lastOp' = op
       /\ UNCHANGED <<guards, fault, sync>>

\* ret: the accesses the node had when the call was made
CallRecordAccess(f) ==
  /\ Running
  /\ ValidFrame(bpm.replacer, f)
  /\ ReturnReplacer(RecordAccess(bpm.replacer, f),
                    Op("RecordAccess", f, FALSE, 0, 0,
                       Len(bpm.replacer.node_store[f].history), NoGuard))

CallSetEvictable(f, set_evictable, junk) ==
  /\ Running
  /\ ValidFrame(bpm.replacer, f)
  /\ ReturnReplacer(SetEvictable([bpm.replacer EXCEPT !.junk = junk], f, set_evictable),
                    Op("SetEvictable", f, set_evictable, 0, 0, 0, NoGuard))

\* ret: what Evict returned
ReturnEvict(res) ==
  ReturnReplacer(res.r, Op("Evict", res.frame_id, FALSE, 0, 0, B2I(res.ok), NoGuard))

CallEvict ==
  /\ Running
  /\ ReturnEvict(Evict(bpm.replacer))

\* ret: 1 when Remove returned, 0 when the exception left it
ReturnRemove(res, f) ==
  ReturnReplacer(res.r, Op("Remove", f, FALSE, 0, 0, B2I(~res.thrown), NoGuard))

CallRemove(f) ==
  /\ Running
  /\ ValidFrame(bpm.replacer, f)
  /\ ReturnRemove(Remove(bpm.replacer, f), f)

NextReplacer ==
  \/ \E f \in Frames : CallRecordAccess(f)
  \/ \E f \in Frames, set_evictable \in BOOLEAN, junk \in Junk :
       CallSetEvictable(f, set_evictable, junk)
  \/ CallEvict
  \/ \E f \in Frames : CallRemove(f)

SpecReplacer == Init /\ [][NextReplacer]_vars

\* ---------------------------------------------------------------- threads
\* Every pool call holds latch_ (a lock_guard) from its first line to its return.
\* A thread takes a step when it asks for latch_, when it gets it, and when the
\* call it makes has got the frame latches it asks for and returns.

\* the calls a thread makes, with their arguments
PoolCalls ==
  {[at |-> "inside", call |-> "NewPage", page |-> INVALID_PAGE_ID, dirty |-> FALSE],
   [at |-> "inside", call |-> "FlushAllPages", page |-> INVALID_PAGE_ID, dirty |-> FALSE]}
  \cup [at : {"inside"}, call : {"FetchPage", "FlushPage", "DeletePage"},
        page : ThreadPageIds, dirty : {FALSE}]
  \cup [at : {"inside"}, call : {"UnpinPage"}, page : ThreadPageIds, dirty : BOOLEAN]

\* what call c does to b and returns: [b, ret, page]
RanNewPage(res) == [b |-> res.b, ret |-> res.ret, page |-> res.page_id]
RanFetchPage(res, c) == [b |-> res.b, ret |-> res.ret, page |-> c.page]
RanBool(res, c) == [b |-> res.b, ret |-> B2I(res.ret), page |-> c.page]
Run(b, c) ==
  IF c.call = "NewPage" THEN RanNewPage(NewPage(b))
  ELSE IF c.call = "FetchPage" THEN RanFetchPage(FetchPage(b, c.page), c)
  ELSE IF c.call = "UnpinPage" THEN RanBool(UnpinPage(b, c.page, c.dirty), c)
  ELSE IF c.call = "FlushPage" THEN RanBool(FlushPage(b, c.page), c)
  ELSE IF c.call = "DeletePage" THEN RanBool(DeletePage(b, c.page), c)
  ELSE [b |-> FlushAllPages(b), ret |-> 0, page |-> INVALID_PAGE_ID]

\* the Pages whose rwlatch_ a call asks for: RLatch around every WritePage,
\* WLatch around ReadPage and around ResetMemory (NewPage after AllocFrame has
\* bound the Page, DeletePage before it frees the frame)
Latched(calls) ==
  {calls[i].slot : i \in {j \in DOMAIN calls :
                            calls[j].c \in {"WritePage", "ReadPage", "Bind", "Free"}}}

\* the call c asks for a frame latch that thread u holds
AsksLatchOf(c, u) ==
  \E i \in Latched(Run(Enter, c).b.calls) : sync.owner[i] = u

\* the call stays within the run's clock
WithinClock(b) == b.err # "none" \/ b.replacer.current_timestamp <= MaxThreadClock

\* page->WLatch() by a thread that has the Page pinned
PageWLatch(t, i) ==
  /\ Running
  /\ sync.pc[t].at = "idle"
  /\ i \in Slots(bpm) /\ bpm.pages[i].pin_count > 0
  /\ sync.owner[i] = 0
  /\ sync' = [sync EXCEPT !.owner[i] = t]
  /\ bpm' = [bpm EXCEPT !.rwlatch[i].writer = TRUE]
  /\ UNCHANGED <<guards, lastOp, fault>>

\* page->WUnlatch() by the thread that holds the latch
PageWUnlatch(t, i) ==
  /\ Running
  /\ sync.pc[t].at = "idle"
  /\ sync.owner[i] = t
  /\ sync' = [sync EXCEPT !.owner[i] = 0]
  /\ bpm' = [bpm EXCEPT !.rwlatch[i].writer = FALSE]
  /\ UNCHANGED <<guards, lastOp, fault>>

\* the thread makes a pool call and reaches its lock_guard
ThreadCall(t) ==
  /\ Running
  /\ sync.pc[t].at = "idle"
  /\ sync' = [sync EXCEPT !.pc[t].at = "calling"]
  /\ UNCHANGED <<bpm, guards, lastOp, fault>>

\* std::lock_guard<std::mutex> lock(latch_) of call c
ThreadLock(t, c) ==
  /\ Running
  /\ sync.pc[t].at = "calling"
  /\ sync.mutex = 0
  /\ c.call = "NewPage" => bpm.next_page_id < MaxThreadPageId
  /\ WithinClock(Run(Enter, c).b)
  /\ sync' = [sync EXCEPT !.mutex = t, !.pc[t] = c]
  /\ UNCHANGED <<bpm, guards, lastOp, fault>>

Ran(res, c) ==
  Commit(res.b, guards, Op(c.call, res.page, c.dirty, 0, 0, res.ret, NoGuard))

\* the call has every latch it asked for, runs to its return and gives latch_ up
ThreadReturn(t) ==
  /\ Running
  /\ sync.pc[t].at = "inside"
  /\ \A u \in Threads : ~AsksLatchOf(sync.pc[t], u)
  /\ Ran(Run(Enter, sync.pc[t]), sync.pc[t])
  /\ sync' = [sync EXCEPT !.mutex = 0, !.pc[t] = Outside]

\* The call asks for a latch its own thread holds.  Locking a shared_mutex the
\* thread owns is undefined: the thread waits for itself for ever (no step), or
\* the lock call reports the deadlock and the exception ends the run.
ThreadRelock(t) ==
  /\ Running
  /\ sync.pc[t].at = "inside"
  /\ AsksLatchOf(sync.pc[t], t)
  /\ fault' = [msg |-> "exception: resource deadlock would occur",
               op |-> sync.pc[t].call, page |-> sync.pc[t].page, g |-> 0]
  /\ UNCHANGED <<bpm, guards, lastOp, sync>>

NextThreads ==
  \/ \E t \in Threads, i \in Frames : PageWLatch(t, i)
  \/ \E t \in Threads, i \in Frames : PageWUnlatch(t, i)
  \/ \E t \in Threads : ThreadCall(t)
  \/ \E t \in Threads, c \in PoolCalls : ThreadLock(t, c)
  \/ \E t \in Threads : ThreadReturn(t)
  \/ \E t \in Threads : ThreadRelock(t)

SpecThreads == Init /\ [][NextThreads]_vars


\* ================================================================ properties
\* page_id is in page_table_
Resident(p) == bpm.page_table[p] # NoFrame

\* the replacer holds frame f as evictable
IsEvictable(f) == bpm.replacer.node_store[f].is_evictable

\* the entries of the last call's log made by call c
Entries(c) == {i \in DOMAIN bpm.calls : bpm.calls[i].c = c}

\* the entries of the last call's log made by call c on pages_[slot]
EntriesOn(c, slot) == {i \in Entries(c) : bpm.calls[i].slot = slot}

\* this step is the call op: it returned, or it ended the run
Returned(op) == fault' = fault /\ lastOp'.op = op
Ended(op) == fault' # fault /\ fault'.op = op

\* C1: over NewPage, FetchPage, UnpinPage, FlushPage, FlushAllPages and
\* DeletePage, a page of the page table whose Page object has pin_count > 0 is
\* not evictable in the replacer, a frame that Evict hands to AllocFrame holds a
\* page with pin_count = 0, and the frame NewPage or FetchPage has just bound has
\* pin_count = 1 and is not evictable when the call returns.
C1_PinnedNeverEvictable ==
  /\ \A p \in PageIds :
       (Resident(p) /\ GetPage(bpm, p) # NullPage
          /\ bpm.pages[GetPage(bpm, p)].pin_count > 0)
       => ~IsEvictable(bpm.page_table[p])
  /\ \A i \in Entries("Evict") : bpm.calls[i].pin = 0
  /\ lastOp.op \in {"NewPage", "FetchPage"}
       => \A i \in Entries("Bind") :
            /\ bpm.pages[bpm.calls[i].slot].pin_count = 1
            /\ ~IsEvictable(bpm.calls[i].frame)

\* C2: sticky dirty.  An UnpinPage(p, is_dirty) that returns true leaves the
\* dirty flag of p's Page equal to (the flag before) OR is_dirty, so an
\* UnpinPage(p, false) never clears a flag an earlier UnpinPage(p, true) set.
C2_StickyDirty ==
  [][ (Returned("UnpinPage") /\ lastOp'.ret = 1)
        => bpm'.pages[GetPage(bpm, lastOp'.page)].is_dirty
             = (bpm.pages[GetPage(bpm, lastOp'.page)].is_dirty \/ lastOp'.dirty) ]_vars

\* C3: dirty promotion.  When a basic or write guard that holds a page and was
\* marked dirty is dropped or destroyed, the UnpinPage that Drop issues carries
\* is_dirty = true.
C3_DirtyTravels ==
  (/\ lastOp.op \in {"Drop", "Destroy"}
   /\ lastOp.pre.kind # "read"
   /\ lastOp.pre.page # NullPage
   /\ lastOp.pre.is_dirty)
  => \A i \in Entries("UnpinPage") : bpm.calls[i].dirty

\* the WritePage entries for the page of entry i of the log
WritesOf(i) == {j \in Entries("WritePage") : bpm.calls[j].page = bpm.calls[i].page}

HeldOn(gs, i) == Cardinality({g \in GuardIds : gs[g].page = i})

\* 1 when the call made a guard on pages_[i]
AcquiredOn(op, i) ==
  IF op.op \in {"FetchPageGuarded", "NewPageGuarded"} /\ op.ret = i THEN 1 ELSE 0

\* C5: exactly-once release.  Over move construction, move assignment, Drop and
\* destruction, every call issues one UnpinPage for each guard that stops
\* holding a page and none otherwise: the UnpinPage calls a step issues for
\* pages_[i] are the guards that held it before, plus the one the step made,
\* minus the guards that hold it after.  A moved-from or dropped guard holds
\* nothing, so dropping it again issues no UnpinPage.
C5_ExactlyOnceRelease ==
  [][ fault' = fault
        => \A i \in Frames :
             Cardinality({j \in DOMAIN bpm'.calls :
                            bpm'.calls[j].c = "UnpinPage" /\ bpm'.calls[j].slot = i})
               = HeldOn(guards, i) + AcquiredOn(lastOp', i) - HeldOn(guards', i) ]_vars

\* a read guard that was moved into another and then destroyed: no UnpinPage,
\* while the guard it was moved into still holds the page
C5_Witness ==
  /\ lastOp.op = "Destroy"
  /\ lastOp.pre.live /\ lastOp.pre.kind = "read"
  /\ lastOp.pre.page = NullPage /\ ~lastOp.pre.bpm
  /\ Entries("UnpinPage") = {}
  /\ \E g \in GuardIds : guards[g].kind = "read" /\ guards[g].page # NullPage

\* the latch release a guard of this kind makes
Unlatch(kind) == IF kind = "read" THEN "RUnlatch" ELSE "WUnlatch"

\* C6: ordered release.  When a read or write guard that holds a page is
\* dropped, destroyed or overwritten by move assignment, the call makes exactly
\* one release of that Page's read (write) latch and exactly one UnpinPage of
\* the page, the release first.
C6_OrderedRelease ==
  (/\ lastOp.op \in {"Drop", "Destroy", "MoveAssign"}
   /\ lastOp.pre.kind \in {"read", "write"}
   /\ lastOp.pre.page # NullPage)
  => /\ Cardinality(EntriesOn(Unlatch(lastOp.pre.kind), lastOp.pre.page)) = 1
     /\ Cardinality(EntriesOn("UnpinPage", lastOp.pre.page)) = 1
     /\ Cardinality(Entries("RUnlatch") \cup Entries("WUnlatch")) = 1
     /\ \A u \in Entries(Unlatch(lastOp.pre.kind)), v \in Entries("UnpinPage") : u < v

\* a write guard holding a page was overwritten by move assignment
C6_Witness ==
  /\ lastOp.op = "MoveAssign"
  /\ lastOp.pre.kind = "write" /\ lastOp.pre.page # NullPage
  /\ Entries("WUnlatch") # {} /\ Entries("UnpinPage") # {}

\* C7: FetchPageRead and FetchPageWrite return the guard with the Page's read
\* (write) latch acquired, so the release its Drop makes has an acquisition to
\* match.
C7_LatchAcquired ==
  (/\ lastOp.op = "FetchPageGuarded"
   /\ lastOp.ret # NullPage)
  => /\ guards[lastOp.g].kind = "read" => bpm.rwlatch[lastOp.ret].readers > 0
     /\ guards[lastOp.g].kind = "write" => bpm.rwlatch[lastOp.ret].writer

\* C8: a guard made when FetchPage or NewPage returned null (bpm_ set, page_
\* null) is inert: dropping or destroying it returns, with no UnpinPage, no
\* latch release and no assertion failure.
C8_NullGuardDropsSilently ==
  [][ \A g \in GuardIds :
        (/\ guards[g].live /\ guards[g].bpm /\ guards[g].page = NullPage
         /\ \/ Ended("Drop") /\ fault'.g = g
            \/ Ended("Destroy") /\ fault'.g = g
            \/ Returned("Drop") /\ lastOp'.g = g
            \/ Returned("Destroy") /\ lastOp'.g = g)
        => fault' = fault /\ bpm'.calls = <<>> ]_vars

\* the free list is empty and every page of the page table is pinned
NothingToAlloc ==
  /\ bpm.free_list = <<>>
  /\ \A p \in PageIds :
       Resident(p) => /\ GetPage(bpm, p) # NullPage
                      /\ bpm.pages[GetPage(bpm, p)].pin_count > 0

\* C9: NewPage returns null if and only if, when it is called, the free list is
\* empty and every resident page has pin_count > 0; otherwise it succeeds.
C9_NewPageNullIff ==
  [][ (Ended("NewPage") \/ Returned("NewPage"))
        => /\ fault' = fault
           /\ (lastOp'.ret = NullPage) <=> NothingToAlloc ]_vars

\* C10: pin round trip, for every K.  FetchPage(p) of a resident page returns
\* p's Page with pin_count one higher, and UnpinPage(p, .) of a page with
\* pin_count > 0 returns true with pin_count one lower.
C10_PinRoundTrip ==
  [][ \A p \in PageIds :
        (Resident(p) /\ GetPage(bpm, p) # NullPage)
        => /\ ((Ended("FetchPage") /\ fault'.page = p)
                 \/ (Returned("FetchPage") /\ lastOp'.page = p))
               => /\ fault' = fault
                  /\ lastOp'.ret = GetPage(bpm, p)
                  /\ bpm'.pages[GetPage(bpm, p)].pin_count
                       = bpm.pages[GetPage(bpm, p)].pin_count + 1
           /\ (/\ bpm.pages[GetPage(bpm, p)].pin_count > 0
               /\ \/ Ended("UnpinPage") /\ fault'.page = p
                  \/ Returned("UnpinPage") /\ lastOp'.page = p)
               => /\ fault' = fault
                  /\ lastOp'.ret = 1
                  /\ bpm'.pages[GetPage(bpm, p)].pin_count
                       = bpm.pages[GetPage(bpm, p)].pin_count - 1 ]_vars

\* C11: after any sequence of completed calls, the frames of the free list and
\* the entries of the page table are pool_size together.
C11_FramesAccounted ==
  Len(bpm.free_list) + Cardinality({p \in PageIds : Resident(p)}) = bpm.pool_size

\* C12: for every entry page_id -> frame_id of the page table,
\* pages_[frame_id] holds page_id; and the Page that AllocFrame binds to a
\* frame it popped from the free list is pages_[frame_id].
C12_FrameIsPage ==
  /\ \A p \in PageIds :
       Resident(p) => bpm.pages[bpm.page_table[p]].page_id = p
  /\ Entries("Evict") = {}
       => \A i \in Entries("Bind") : bpm.calls[i].slot = bpm.calls[i].frame

\* frame f is in the free list
InFreeList(f) == \E i \in DOMAIN bpm.free_list : bpm.free_list[i] = f

\* C13: a frame is in the free list if and only if it holds no page, is not a
\* value of the page table and is not an eviction candidate of the replacer;
\* and the frame a successful DeletePage has freed is no candidate of the
\* replacer and has no access history left.
C13_FreeListInvariant ==
  /\ \A f \in Slots(bpm) :
       InFreeList(f)
         <=> /\ bpm.pages[f].page_id = INVALID_PAGE_ID
             /\ \A p \in PageIds : bpm.page_table[p] # f
             /\ ~IsEvictable(f)
  /\ lastOp.op = "DeletePage"
       => \A i \in Entries("Free") :
            /\ ~IsEvictable(bpm.calls[i].frame)
            /\ bpm.replacer.node_store[bpm.calls[i].frame].history = <<>>

\* C14: FlushPage(p) of a resident page writes the page once, dirty or not,
\* returns true and leaves the Page's dirty flag cleared; FlushPage of an id
\* that is not resident returns false and writes nothing.
C14_FlushPage ==
  [][ \A p \in PageIds :
        ((Ended("FlushPage") /\ fault'.page = p)
           \/ (Returned("FlushPage") /\ lastOp'.page = p))
        => /\ fault' = fault
           /\ IF Resident(p)
                THEN /\ lastOp'.ret = 1
                     /\ Cardinality({j \in DOMAIN bpm'.calls :
                                       /\ bpm'.calls[j].c = "WritePage"
                                       /\ bpm'.calls[j].page = p}) = 1
                     /\ GetPage(bpm', p) # NullPage
                     /\ ~bpm'.pages[GetPage(bpm', p)].is_dirty
              ELSE lastOp'.ret = 0 /\ bpm'.calls = <<>> ]_vars

EvictableFrames == {f \in Frames : IsEvictable(f)}

\* node f's history_
History(f) == bpm.replacer.node_store[f].history

\* C18: when every evictable node has exactly K recorded accesses, Evict
\* returns the evictable frame whose history.back() is the smallest.
C18_EvictLargestKDistance ==
  [][ (/\ Ended("Evict") \/ Returned("Evict")
       /\ EvictableFrames # {}
       /\ \A f \in EvictableFrames : Len(History(f)) = bpm.replacer.k)
      => /\ fault' = fault
         /\ lastOp'.ret = 1
         /\ lastOp'.page \in EvictableFrames
         /\ \A f \in EvictableFrames :
              Last(History(lastOp'.page)) <= Last(History(f)) ]_vars

\* the evictable frames with fewer than K recorded accesses
WarmupFrames == {f \in EvictableFrames : Len(History(f)) < bpm.replacer.k}

\* C19: whenever an evictable node has fewer than K recorded accesses, Evict
\* returns a frame with fewer than K accesses, and among those the one whose
\* oldest recorded access (history.back()) is the smallest.
C19_WarmupPrecedence ==
  [][ (/\ Ended("Evict") \/ Returned("Evict")
       /\ WarmupFrames # {})
      => /\ fault' = fault
         /\ lastOp'.ret = 1
         /\ lastOp'.page \in WarmupFrames
         /\ \A f \in WarmupFrames :
              (History(f) # <<>> /\ History(lastOp'.page) # <<>>)
                => Last(History(lastOp'.page)) <= Last(History(f)) ]_vars

\* C20: after any sequence of RecordAccess, SetEvictable, Evict and Remove calls
\* on valid frame ids, curr_size_ (what Size() returns) is the number of nodes
\* whose is_evictable_ is true.
C20_SizeCountsEvictable ==
  Size(bpm.replacer) = Cardinality(EvictableFrames)

\* Remove has cleared an evictable node and another node is still evictable
C20_Witness ==
  /\ lastOp.op = "Remove" /\ lastOp.ret = 1
  /\ bpm.replacer.node_store[lastOp.page].present
  /\ EvictableFrames # {}

\* thread t holds latch_ inside a call that waits for a frame latch held by
\* thread u
WaitsUnderMutex(t, u) ==
  /\ sync.pc[t].at = "inside" /\ sync.mutex = t
  /\ AsksLatchOf(sync.pc[t], u)

\* t waits for a frame latch of u, and u, at the lock_guard of a pool call,
\* waits for the latch_ that t holds
Deadlocked(t, u) ==
  /\ t # u
  /\ WaitsUnderMutex(t, u)
  /\ sync.pc[u].at = "calling"

\* C17: no thread waits on a frame's reader/writer latch while it holds the
\* pool mutex; so a thread that holds a page's write latch and calls a pool
\* operation is never deadlocked with a FlushPage, FlushAllPages, NewPage,
\* FetchPage or DeletePage of another thread on that frame.
C17_NoLatchWaitUnderMutex ==
  /\ \A t, u \in Threads : ~WaitsUnderMutex(t, u)
  /\ \A t, u \in Threads : ~Deadlocked(t, u)

\* C21: Evict returns false exactly when no node is evictable; otherwise it
\* returns a frame that was evictable before the call, and after the call that
\* frame is not evictable, its history is empty, Size() is one smaller and every
\* other node is as it was.
C21_EvictContract ==
  [][ (Ended("Evict") \/ Returned("Evict"))
      => /\ fault' = fault
         /\ lastOp'.ret = 0 <=> EvictableFrames = {}
         /\ lastOp'.ret = 1
              => /\ lastOp'.page \in EvictableFrames
                 /\ ~bpm'.replacer.node_store[lastOp'.page].is_evictable
                 /\ bpm'.replacer.node_store[lastOp'.page].history = <<>>
                 /\ Size(bpm'.replacer) = Size(bpm.replacer) - 1
                 /\ \A f \in Frames \ {lastOp'.page} :
                      bpm'.replacer.node_store[f] = bpm.replacer.node_store[f]
         /\ lastOp'.ret = 0 => bpm'.replacer = bpm.replacer ]_vars

\* Evict has returned a frame and left another evictable frame behind
C21_Witness ==
  /\ lastOp.op = "Evict" /\ lastOp.ret = 1
  /\ ~IsEvictable(lastOp.page) /\ History(lastOp.page) = <<>>
  /\ EvictableFrames # {}

\* C22: SetEvictable(f, flag) on a valid frame id, whatever the length of the
\* node's history, returns with the node's flag equal to flag; Size() goes up by
\* one when the flag went from false to true, down by one when it went from true
\* to false, and stays when the flag did not change; a call that repeats the
\* node's flag changes nothing.
C22_SetEvictableContract ==
  [][ (Ended("SetEvictable") \/ Returned("SetEvictable"))
      => /\ fault' = fault
         /\ bpm'.replacer.node_store[lastOp'.page].is_evictable = lastOp'.dirty
         /\ Size(bpm'.replacer) - Size(bpm.replacer)
              = B2I(lastOp'.dirty) - B2I(IsEvictable(lastOp'.page))
         /\ (/\ bpm.replacer.node_store[lastOp'.page].present
             /\ IsEvictable(lastOp'.page) = lastOp'.dirty)
              => bpm'.replacer = bpm.replacer ]_vars

\* C23: Remove(f) ends with the "remove a non-evictable frame" error and leaves
\* the replacer as it was when f's node exists and is not evictable; it returns
\* and changes nothing when f has no node; when f is evictable it returns with
\* f's history empty, f's flag false and Size() one smaller.
C23_RemoveContract ==
  [][ \A f \in Frames :
        ((Ended("Remove") /\ fault'.page = f)
           \/ (Returned("Remove") /\ lastOp'.page = f))
        => /\ fault' = fault
           /\ (bpm.replacer.node_store[f].present /\ ~IsEvictable(f))
                => lastOp'.ret = 0 /\ bpm'.replacer = bpm.replacer
           /\ ~bpm.replacer.node_store[f].present
                => lastOp'.ret = 1 /\ bpm'.replacer = bpm.replacer
           /\ IsEvictable(f)
                => /\ lastOp'.ret = 1
                   /\ bpm'.replacer.node_store[f].history = <<>>
                   /\ ~bpm'.replacer.node_store[f].is_evictable
                   /\ Size(bpm'.replacer) = Size(bpm.replacer) - 1 ]_vars

\* the replacer calls on valid frame ids, with the outcome of an undefined read
ReplacerCalls ==
  [call : {"RecordAccess", "Remove"}, f : Slots(bpm), flag : {FALSE}, junk : {JunkAbort}]
  \cup [call : {"SetEvictable"}, f : Slots(bpm), flag : BOOLEAN, junk : Junk]
  \cup [call : {"Evict"}, f : {NoFrame}, flag : {FALSE}, junk : {JunkAbort}]

\* what the caller of c sees when the replacer is r: the value returned (for
\* Evict the frame id or NoFrame, for Remove 0 when it throws) and how c ended
Seen(ret, r) == [ret |-> ret, err |-> r.err]
SeenEvict(res) == Seen(res.frame_id, res.r)
SeenRemove(res) == Seen(B2I(~res.thrown), res.r)
Result(r, c) ==
  IF c.call = "RecordAccess" THEN Seen(0, RecordAccess(r, c.f))
  ELSE IF c.call = "SetEvictable"
    THEN Seen(0, SetEvictable([r EXCEPT !.junk = c.junk], c.f, c.flag))
  ELSE IF c.call = "Evict" THEN SeenEvict(Evict(r))
  ELSE SeenRemove(Remove(r, c.f))

\* the replacer r had frame f never been touched: no node, no dict_ entry
NeverTouched(r, f) ==
  [r EXCEPT !.node_store[f] = NewNode, !.dict[f] = "none"]

\* Evict has just returned lastOp.page, or Remove(lastOp.page) has just cleared
\* an evictable node
JustCleared ==
  /\ Running
  /\ lastOp.op \in {"Evict", "Remove"} /\ lastOp.ret = 1
  /\ lastOp.page \in Slots(bpm)
  /\ bpm.replacer.node_store[lastOp.page].present

\* the dict_ entry that Evict left for frame f influences no call
LeftoverIsInert(f) ==
  bpm.replacer.dict[f] = "stale"
    => \A c \in ReplacerCalls :
         Result(bpm.replacer, c) = Result([bpm.replacer EXCEPT !.dict[f] = "none"], c)

\* C24: after Evict has returned frame f, or Remove(f) has cleared f, the next
\* replacer call returns and ends as it would had f never been touched (the
\* first call of every later sequence); and at no later time does the position
\* index of f's previous life change what a call returns or how it ends.
C24_ClearedIsNeverTouched ==
  /\ JustCleared
       => \A c \in ReplacerCalls :
            Result(bpm.replacer, c) = Result(NeverTouched(bpm.replacer, lastOp.page), c)
  /\ Running => \A f \in Slots(bpm) : LeftoverIsInert(f)

\* the timestamps of h are in descending order (newest first)
NewestFirst(h) == \A i \in 1 .. (Len(h) - 1) : h[i] > h[i + 1]

\* C25: in every reachable replacer state each node's history holds at most K
\* timestamps, newest first, and k_ is the length of the history; a RecordAccess
\* that returns from a node with K entries has dropped the oldest entry and put
\* the new timestamp at the head; and no RecordAccess ends on the assertion
\* 'node->k_ > this->k_' or 'node.k_ != node.history_.size()'.
C25_HistoryBounded ==
  [][ /\ \A f \in Frames :
           /\ Len(bpm'.replacer.node_store[f].history) <= bpm'.replacer.k
           /\ NewestFirst(bpm'.replacer.node_store[f].history)
           /\ bpm'.replacer.node_store[f].k = Len(bpm'.replacer.node_store[f].history)
      /\ (Returned("RecordAccess") /\ Len(History(lastOp'.page)) = bpm.replacer.k)
           => bpm'.replacer.node_store[lastOp'.page].history
                = <<bpm'.replacer.current_timestamp>> \o Front(History(lastOp'.page))
      /\ Ended("RecordAccess")
           => fault'.msg \notin {"assert: node->k_ > this->k_",
                                 "assert: node.k_ != node.history_.size()"} ]_vars

\* RecordAccess has returned from a node that had K entries already
C25_Witness ==
  /\ lastOp.op = "RecordAccess"
  /\ lastOp.ret = bpm.replacer.k
  /\ Len(History(lastOp.page)) = bpm.replacer.k
  /\ Head(History(lastOp.page)) = bpm.replacer.current_timestamp

\* how many times frame f is in list
CountIn(list, f) == Cardinality({i \in DOMAIN list : list[i] = f})

\* C26: after any sequence of RecordAccess, SetEvictable, Evict and Remove calls
\* on valid frame ids, every evictable node is once in one candidate list
\* (lru_list_ when it has fewer than K accesses, k_list_ when it has K) and
\* dict_ has its position; no frame that is not evictable has a dict_ entry or
\* is in a list; and no call ends on the assertion 'This frame does not exist
\* in dict' or uses a stale list position.
C26_ListsAndDict ==
  /\ \A f \in Slots(bpm) :
       /\ IsEvictable(f)
            => /\ CountIn(bpm.replacer.lru_list, f)
                    = B2I(Len(History(f)) < bpm.replacer.k)
               /\ CountIn(bpm.replacer.k_list, f)
                    = B2I(Len(History(f)) = bpm.replacer.k)
               /\ bpm.replacer.dict[f] = "valid"
       /\ ~IsEvictable(f)
            => /\ CountIn(bpm.replacer.lru_list, f) = 0
               /\ CountIn(bpm.replacer.k_list, f) = 0
               /\ bpm.replacer.dict[f] = "none"
  /\ fault.msg \notin {NotInDict, BadIterator}

\* C27: FlushPage and FlushAllPages return, and leave the pin counts, the page
\* table, the free list and the replacer (access histories, evictable set,
\* candidate lists, and so the frame the next Evict returns) as they were.
C27_FlushChangesNothing ==
  [][ (\/ Ended("FlushPage") \/ Returned("FlushPage")
       \/ Ended("FlushAllPages") \/ Returned("FlushAllPages"))
      => /\ fault' = fault
         /\ \A i \in Frames : bpm'.pages[i].pin_count = bpm.pages[i].pin_count
         /\ bpm'.page_table = bpm.page_table
         /\ bpm'.free_list = bpm.free_list
         /\ bpm'.replacer.node_store = bpm.replacer.node_store
         /\ bpm'.replacer.lru_list = bpm.replacer.lru_list
         /\ bpm'.replacer.k_list = bpm.replacer.k_list
         /\ Size(bpm'.replacer) = Size(bpm.replacer)
         /\ Evict(bpm'.replacer).frame_id = Evict(bpm.replacer).frame_id ]_vars

====
